---- MODULE Spec2Model ----
(***************************************************************************)
(* A model of the batch media-conversion scripts of the repository:        *)
(*   video2audio.py      VideoToAudioConverter.batch_convert and           *)
(*                       convert_video_to_audio                            *)
(*   audio_compresser.py compress_with_opus_then_mp3, two_stage_compress   *)
(*   vid_compresser.py   compress_mp4_files                                *)
(*   audio2text.py       main                                              *)
(*   soundext.py         main, process_mp4_files                           *)
(*                                                                         *)
(* File names are sequences of one-character strings, so that stem,       *)
(* suffix, lower-casing and lexical order are computed as Python computes *)
(* them.  A path is a sequence of names, relative to the input root (a    *)
(* source) or to the output root (a destination).                         *)
(***************************************************************************)
EXTENDS Integers, Sequences, FiniteSets, TLC

\* ------------------------------------------------------------------ bounds
\* At most this many entries in the input directory tree.
MaxFiles == 3
\* max_workers ranges over 1..MaxWorkers.
MaxWorkers == 2
\* At most this many source files whose processing meets a fault of the
\* environment (a tool failure, a timeout, a vanished source, ...).
MaxFaults == 1

\* ------------------------------------------------------------------ state
VARIABLES
    script,         \* which script runs
    listing,        \* the input tree, in the order the OS lists it
    recursive,      \* batch_convert's parameters
    keep_structure,
    overwrite,
    max_workers,
    audio_format,
    toolEnv,        \* source file -> what the environment does to its job,
                    \* "unset" until the job is taken up
    outFiles,       \* the output directory: destination -> content
    outFiles0,      \* the output directory when the run began
    pc,             \* where the script is
    video_files,    \* batch_convert's locals
    tasks,
    stats,
    fut,            \* task index -> state of its call / future
    invoked,        \* the sources ffmpeg was started for, in order
    report,         \* source file -> what the run reported for it
    audio_file,     \* source file -> the destination the job builder computed
    pending,        \* the files a for-loop over a listing has still to visit
    stage,          \* "idle", or the ffmpeg run the loop is waiting for
    temp,           \* the content of two_stage_compress's temporary .opus file
    processed_count,\* compress_with_opus_then_mp3's locals
    failed_files,
    runNo,          \* 1 for the first run over the tree, 2 for a re-run
    prevDest,       \* source file -> destination computed by the first run
    input_kind,     \* what the input path is: "dir", "file" or "missing"
    ffmpeg_ok,      \* whether "ffmpeg -version" works
    exit_code,      \* the exit status of the process, -1 while it runs
    summary,        \* the failed files the final summary lists, with messages
    intAt,          \* -1, or the number of ffmpeg runs started when Ctrl-C came
    keep_audio,     \* --keep-audio of the transcription scripts
    provider,       \* the speech-to-text provider and whether it is usable
    audio_dir       \* the temp_audio directory: audio file -> content

vars == << script, listing, recursive, keep_structure, overwrite, max_workers,
           audio_format, toolEnv, outFiles, outFiles0, pc, video_files, tasks, stats, fut,
           invoked, report, audio_file, pending, stage, temp, processed_count,
           failed_files, runNo, prevDest, input_kind, ffmpeg_ok, exit_code, summary,
           intAt, keep_audio, provider, audio_dir >>

\* the locals of the loops of audio_compresser.py and vid_compresser.py
loopVars == << pending, stage, temp, processed_count, failed_files >>

\* the locals of batch_convert
batchVars == << video_files, tasks, stats, fut, audio_file >>

params == << script, listing, recursive, keep_structure, overwrite, max_workers,
             audio_format, outFiles0, runNo, prevDest, input_kind, ffmpeg_ok, keep_audio,
             provider >>

\* what main leaves behind
mainVars == << exit_code, summary >>

\* the interrupt marker and the staging area of the transcription scripts
miscVars == << intAt, audio_dir >>

\* ------------------------------------------------------------- characters
\* The characters in use, in code-point order.
Ascii == << ".", "/", "2", "3", "4", "M", "P", "a", "b", "c", "d", "e", "f", "g",
            "i", "k", "l", "m", "o", "p", "r", "s", "t", "u", "v", "w", "x" >>

Ord(c) == CHOOSE i \in 1..Len(Ascii) : Ascii[i] = c

\* str.lower() on one character
LowerChar(c) == IF c = "M" THEN "m" ELSE IF c = "P" THEN "p" ELSE c

\* str.lower()
Lower(s) == [i \in 1..Len(s) |-> LowerChar(s[i])]

\* str.rfind('.') + 1: the last position of a dot, 0 when there is none
RFindDot(s) ==
    LET dots == {i \in 1..Len(s) : s[i] = "."}
    IN  IF dots = {} THEN 0 ELSE CHOOSE i \in dots : \A j \in dots : j <= i

\* pathlib.PurePath.suffix of a name
Suffix(name) ==
    LET i == RFindDot(name)
    IN  IF 1 < i /\ i < Len(name) THEN SubSeq(name, i, Len(name)) ELSE << >>

\* pathlib.PurePath.stem of a name
Stem(name) ==
    LET i == RFindDot(name)
    IN  IF 1 < i /\ i < Len(name) THEN SubSeq(name, 1, i - 1) ELSE name

\* os.path.splitext(name): a dot splits unless only dots come before it
SplitExt(name) ==
    LET i == RFindDot(name)
    IN  IF i > 0 /\ \E j \in 1..(i - 1) : name[j] # "."
        THEN << SubSeq(name, 1, i - 1), SubSeq(name, i, Len(name)) >>
        ELSE << name, << >> >>

\* str comparison: code-point lexical order
RECURSIVE StrLess(_, _)
StrLess(x, y) ==
    IF y = << >> THEN FALSE
    ELSE IF x = << >> THEN TRUE
    ELSE IF Head(x) = Head(y) THEN StrLess(Tail(x), Tail(y))
    ELSE Ord(Head(x)) < Ord(Head(y))

\* str(path): the names joined by the separator
RECURSIVE PathStr(_)
PathStr(p) ==
    IF Len(p) = 0 THEN << >>
    ELSE IF Len(p) = 1 THEN p[1]
    ELSE p[1] \o << "/" >> \o PathStr(Tail(p))

Last(s) == s[Len(s)]
Front(s) == SubSeq(s, 1, Len(s) - 1)
Range(s) == {s[i] : i \in 1..Len(s)}
Perms(S) == {s \in [1..Cardinality(S) -> S] : \A i, j \in 1..Cardinality(S) : s[i] = s[j] => i = j}

\* the list is in ascending lexical path order
IsSorted(s) == \A i, j \in 1..Len(s) : i < j => ~StrLess(PathStr(s[j]), PathStr(s[i]))

\* sorted(list of names)
SortedSeq(S) == CHOOSE s \in Perms(S) : IsSorted(s)

\* ------------------------------------------------------- video2audio.py
\* VideoToAudioConverter.SUPPORTED_VIDEO_FORMATS
SUPPORTED_VIDEO_FORMATS == {
    << ".", "m", "p", "4" >>,
    << ".", "a", "v", "i" >>,
    << ".", "m", "o", "v" >>,
    << ".", "m", "k", "v" >>,
    << ".", "f", "l", "v" >>,
    << ".", "w", "m", "v" >>,
    << ".", "w", "e", "b", "m" >>,
    << ".", "m", "4", "v" >>,
    << ".", "m", "p", "g" >>,
    << ".", "m", "p", "e", "g" >>,
    << ".", "3", "g", "p" >>,
    << ".", "m", "t", "s" >>,
    << ".", "m", "2", "t", "s" >>,
    << ".", "t", "s" >>,
    << ".", "r", "m" >>,
    << ".", "r", "m", "v", "b" >>,
    << ".", "a", "s", "f" >>,
    << ".", "v", "o", "b" >>,
    << ".", "o", "g", "v" >>,
    << ".", "d", "i", "v", "x" >> }

\* The audio formats the model runs with (keys of AUDIO_FORMATS).
Formats == {"mp3", "aac"}

\* AUDIO_FORMATS[audio_format]['ext']
AudioExt(fmt) ==
    CASE fmt = "mp3"  -> << ".", "m", "p", "3" >>
      [] fmt = "aac"  -> << ".", "m", "4", "a" >>
      [] fmt = "flac" -> << ".", "f", "l", "a", "c" >>
      [] fmt = "wav"  -> << ".", "w", "a", "v" >>
      [] fmt = "opus" -> << ".", "o", "p", "u", "s" >>
      [] fmt = "ogg"  -> << ".", "o", "g", "g" >>

\* The entries an input tree is drawn from, as paths relative to the input
\* root.  All are regular files.
f_a_avi == << << "a", ".", "a", "v", "i" >> >>
f_a_mp4 == << << "a", ".", "m", "p", "4" >> >>
f_b_MP4 == << << "b", ".", "M", "P", "4" >> >>
f_c_avi == << << "c", ".", "a", "v", "i" >> >>
f_sub_a_mp4 == << << "s", "u", "b" >>, << "a", ".", "m", "p", "4" >> >>
f_b_txt == << << "b", ".", "t", "x", "t" >> >>

\* file_path.suffix.lower() in self.SUPPORTED_VIDEO_FORMATS
IsVideo(path) == Lower(Suffix(Last(path))) \in SUPPORTED_VIDEO_FORMATS

\* The file search of batch_convert.  `list` is the order in which the
\* operating system returns the entries of the tree: os.walk yields the
\* files of the root before those of its subdirectories, Path.iterdir only
\* the root's; neither sorts.
FindVideoFiles(list, rec) ==
    LET InRoot(p) == Len(p) = 1 /\ IsVideo(p)
        Below(p) == Len(p) > 1 /\ IsVideo(p)
    IN  IF rec THEN SelectSeq(list, InRoot) \o SelectSeq(list, Below)
        ELSE SelectSeq(list, InRoot)

\* a destination that steps aside when a file listed earlier in the run
\* already has that destination
AudioFileUnique(video_file, fmt, keep) ==
    LET Plain(v) == IF keep THEN Front(v) \o << Stem(Last(v)) \o AudioExt(fmt) >>
                    ELSE << Stem(Last(v)) \o AudioExt(fmt) >>
        Pos(v) == CHOOSE i \in DOMAIN listing : listing[i] = v
        taken == \E g \in Range(listing) :
                    /\ IsVideo(g)
                    /\ Pos(g) < Pos(video_file)
                    /\ Plain(g) = Plain(video_file)
    IN  IF taken
        THEN Front(Plain(video_file)) \o << Stem(Last(video_file)) \o << "2" >> \o AudioExt(fmt) >>
        ELSE Plain(video_file)

\* The destination of a source file, relative to the output directory:
\*   keep_structure: output_path / rel_path.with_suffix(ext)
\*   otherwise:      output_path / f"{video_file.stem}{ext}"
AudioFile(video_file, fmt, keep) ==
    IF keep THEN Front(video_file) \o << Stem(Last(video_file)) \o AudioExt(fmt) >>
    ELSE << Stem(Last(video_file)) \o AudioExt(fmt) >>

\* Path.exists() / os.path.exists() in the output directory
\* an existence test that never sees a file
ExistsNever(fs, path) == FALSE

Exists(fs, path) == path \in DOMAIN fs /\ fs[path] # "absent"

\* os.path.getsize(): 0 for an empty file; a partly written file and a
\* complete one both have bytes
GetSize(fs, path) == IF fs[path] = "empty" THEN 0 ELSE IF fs[path] = "partial" THEN 1 ELSE 2

\* the skip test with the overwrite flag inverted
SkipJobInverted(fs, dest, ow) == ow /\ Exists(fs, dest)

\* "if not overwrite and audio_file.exists(): skipped"
SkipJob(fs, dest, ow) == ~ow /\ Exists(fs, dest)

\* The task list of batch_convert: one task per file that is not skipped,
\* in the order of video_files.
RECURSIVE BuildTasks(_, _, _, _, _)
BuildTasks(files, fs, fmt, keep, ow) ==
    IF files = << >> THEN << >>
    ELSE LET dest == AudioFile(Head(files), fmt, keep)
             rest == BuildTasks(Tail(files), fs, fmt, keep, ow)
         IN  IF SkipJob(fs, dest, ow) THEN rest
             ELSE << [video_path |-> Head(files), audio_path |-> dest,
                      audio_format |-> fmt, overwrite |-> ow] >> \o rest

\* The files the job builder skips.
SkippedFiles(files, fs, fmt, keep, ow) ==
    {f \in Range(files) : SkipJob(fs, AudioFile(f, fmt, keep), ow)}

\* stats['skipped'] after the job-building loop
SkippedCount(files, fs, fmt, keep, ow) ==
    Cardinality({i \in 1..Len(files) : SkipJob(fs, AudioFile(files[i], fmt, keep), ow)})

\* What the environment does to one source file's conversion:
\*   "ok"        ffmpeg exits 0 and writes the destination
\*   "zero"      ffmpeg exits 0 and leaves a zero-length destination
\*   "none"      ffmpeg exits 0 and writes nothing
\*   "err"       ffmpeg exits non-zero
\*   "timeout"   subprocess.run raises TimeoutExpired; the killed process
\*               leaves a partly written destination
\*   "exc"       subprocess.run raises another exception (e.g. OSError)
\*   "mkdir_err" os.makedirs(output_dir) raises
\*   "gone"      the source file no longer exists when it is converted
ToolOutcomes == {"ok", "zero", "none", "err", "timeout", "exc"}
Faults == (ToolOutcomes \ {"ok"}) \cup {"mkdir_err", "gone"}

\* a (success, message) return value, a raised exception, or the decision to
\* run ffmpeg
Ret(ok, msg) == [kind |-> "ret", ok |-> ok, msg |-> msg]
Raise(msg) == [kind |-> "raise", ok |-> FALSE, msg |-> msg]
Invoke == [kind |-> "invoke", ok |-> FALSE, msg |-> ""]
NoResult == [kind |-> "none", ok |-> FALSE, msg |-> ""]

\* convert_video_to_audio before subprocess.run: the source check, makedirs
\* (outside any try block) and the existing-destination check.
PreCheck(task, fs, env) ==
    IF env = "gone" THEN Ret(FALSE, "video_missing")
    ELSE IF env = "mkdir_err" THEN Raise("makedirs")
    ELSE IF ~task.overwrite /\ Exists(fs, task.audio_path) THEN Ret(FALSE, "output_exists")
    ELSE Invoke

\* the destination file after ffmpeg ran with the given outcome
ToolEffect(outcome, old) ==
    CASE outcome = "ok" -> "data"
      [] outcome = "zero" -> "empty"
      [] outcome = "timeout" -> "partial"
      [] OTHER -> old

\* "os.path.exists(audio_path) and os.path.getsize(audio_path) > 0"
OutputOk(fs, path) == Exists(fs, path) /\ GetSize(fs, path) > 0

\* the classification without the TimeoutExpired handler: a timeout falls
\* to the handler of any other exception
ClassifyNoTimeout(outcome, fs, audio_path) ==
    CASE outcome \in {"ok", "zero", "none"} ->
             IF fs[audio_path] \in {"data", "partial"} THEN Ret(TRUE, "converted")
             ELSE Ret(FALSE, "empty_or_missing")
      [] outcome = "err" -> Ret(FALSE, "ffmpeg_error")
      [] OTHER -> Ret(FALSE, "exception")

\* convert_video_to_audio after subprocess.run: the classification of the
\* outcome; fs is the output directory after the tool ran.
Classify(outcome, fs, audio_path) ==
    CASE outcome \in {"ok", "zero", "none"} ->
             IF OutputOk(fs, audio_path) THEN Ret(TRUE, "converted")
             ELSE Ret(FALSE, "empty_or_missing")
      [] outcome = "err" -> Ret(FALSE, "ffmpeg_error")
      [] outcome = "timeout" -> Ret(FALSE, "timeout")
      [] OTHER -> Ret(FALSE, "exception")

\* "if success: stats['success'] += 1 else: stats['failed'] += 1"
\* a fold that forgets the failed results
CountDropsFailed(st, res) == IF res.ok THEN [st EXCEPT !.success = @ + 1] ELSE st

Count(st, res) ==
    IF res.ok THEN [st EXCEPT !.success = @ + 1] ELSE [st EXCEPT !.failed = @ + 1]

\* what is reported for a file once its result is known
Report(res) == [outcome |-> IF res.ok THEN "success" ELSE "failed", msg |-> res.msg]

\* "if max_workers > 1 and len(tasks) > 1"
UsePool(workers, tks) == workers > 1 /\ Len(tks) > 1

Queued(f) == {i \in DOMAIN f : f[i].st = "queued"}
Running(f) == {i \in DOMAIN f : f[i].st = "running"}
Finished(f) == {i \in DOMAIN f : f[i].st = "done"}
Collected(f) == {i \in DOMAIN f : f[i].st = "collected"}
MinOf(S) == CHOOSE i \in S : \A j \in S : i <= j

\* a pool that starts a thread for every queued task
PoolCanStartUnbounded(f, i, workers) == Queued(f) # {} /\ i = MinOf(Queued(f))

\* ThreadPoolExecutor(max_workers): work items are taken from the queue in
\* submission order, by at most max_workers threads.
PoolCanStart(f, i, workers) ==
    /\ Queued(f) # {}
    /\ i = MinOf(Queued(f))
    /\ Cardinality(Running(f)) < workers

\* a loop that takes the tasks from the end of the list
SeqPickLast(f) == CHOOSE i \in Queued(f) : \A j \in Queued(f) : j <= i

\* "for task in tasks": the next task of the sequential loop
SeqPick(f) == MinOf(Queued(f))

Reverse(s) == [i \in 1..Len(s) |-> s[Len(s) + 1 - i]]

\* the trees of at most MaxFiles entries over a universe
Trees(U) == {S \in SUBSET U : Cardinality(S) <= MaxFiles}

\* the files that have met a fault so far
Faulty(env) == {f \in DOMAIN env : env[f] \notin {"unset", "ok"}}

\* what may happen to the next job: at most MaxFaults files meet a fault
EnvChoices(env, faults) ==
    IF Cardinality(Faulty(env)) < MaxFaults THEN {"ok"} \cup faults ELSE {"ok"}

Unset(S) == [f \in S |-> "unset"]

\* the destinations of a tree's video files
Dests(S, fmt, keep) == {AudioFile(f, fmt, keep) : f \in {g \in S : IsVideo(g)}}

ZeroStats == [total |-> 0, success |-> 0, failed |-> 0, skipped |-> 0, no_audio |-> 0]

\* the locals before batch_convert has run
Fresh ==
    /\ video_files = << >>
    /\ tasks = << >>
    /\ stats = ZeroStats
    /\ fut = << >>
    /\ invoked = << >>
    /\ report = << >>
    /\ audio_file = << >>
    /\ pending = << >>
    /\ stage = "idle"
    /\ temp = "absent"
    /\ processed_count = 0
    /\ failed_files = << >>
    /\ exit_code = -1
    /\ summary = << >>
    /\ intAt = -1
    /\ keep_audio = FALSE
    /\ provider = "none"
    /\ audio_dir = << >>

\* what the path given on the command line may be
InputKinds == {"dir", "file", "missing"}

\* the trees under the input path: only a directory has entries
Entries(kind, U) == IF kind = "dir" THEN Trees(U) ELSE {{}}

\* Two files of the root and one of a subdirectory with the name of a root
\* file: flattened, two of the three share a destination.
RunUniverse == {f_a_mp4, f_b_MP4, f_sub_a_mp4}

\* the files the search finds in a tree
Found(S, rec) == Range(FindVideoFiles(SortedSeq(S), rec))

\* A run of video2audio with the default format; the OS lists the tree in
\* ascending or in descending order.
InitV2A ==
    /\ script = "video2audio"
    /\ recursive \in BOOLEAN
    /\ keep_structure \in BOOLEAN
    /\ input_kind \in InputKinds
    /\ ffmpeg_ok \in BOOLEAN
    /\ pc = "main"
    /\ \E S \in Entries(input_kind, RunUniverse) :
          /\ listing \in {SortedSeq(S), Reverse(SortedSeq(S))}
          /\ toolEnv = Unset(S)
          /\ outFiles \in [Dests(Found(S, recursive), "mp3", keep_structure)
                               -> {"absent", "data"}]
    /\ outFiles0 = outFiles
    /\ audio_format = "mp3"
    /\ overwrite \in BOOLEAN
    /\ max_workers \in 1..MaxWorkers
    /\ runNo = 1
    /\ prevDest = << >>
    /\ Fresh

\* ------------------------------------------------------ video2audio main
\* main before batch_convert: "if not input_dir.exists(): sys.exit(1)" and
\* "if not converter._check_ffmpeg(): sys.exit(1)"
StartupCheck(kind, tool_ok) == IF kind = "missing" \/ ~tool_ok THEN "exit" ELSE "start"

\* The exit status of main once batch_convert has returned or raised.  An
\* exception or KeyboardInterrupt: sys.exit(1).  The {'error': ...} result
\* for a path that is no directory is printed, and main ends normally.  The
\* result for "no video file found" has no 'output_dir' key, so printing it
\* raises KeyError, which the handler turns into sys.exit(1).
ExitCode(p, kind, files) ==
    IF p # "done" THEN 1
    ELSE IF kind # "dir" THEN 0
    ELSE IF files = << >> THEN 1
    ELSE 0

\* The final summary of main prints the five counters, the output directory
\* and the duration; it lists no file.
MainSummary(st) == << >>

MainStart ==
    /\ script = "video2audio"
    /\ pc = "main"
    /\ pc' = StartupCheck(input_kind, ffmpeg_ok)
    /\ exit_code' = IF pc' = "exit" THEN 1 ELSE exit_code
    /\ UNCHANGED << batchVars, loopVars, params, miscVars, toolEnv, outFiles, invoked,
                    report, summary >>

\* batch_convert has returned or raised: main prints and the process ends.
MainExit ==
    /\ script = "video2audio"
    /\ pc \in {"done", "raised", "interrupted"}
    /\ pc' = "exit"
    /\ exit_code' = ExitCode(pc, input_kind, video_files)
    /\ summary' = MainSummary(stats)
    /\ UNCHANGED << batchVars, loopVars, params, miscVars, toolEnv, outFiles, invoked,
                    report >>

\* --------------------------------------------------- batch_convert, steps
\* The file search, and the early return when nothing is found.
Enumerate ==
    /\ script = "video2audio"
    /\ pc = "start"
    /\ video_files' = FindVideoFiles(listing, recursive)
    /\ stats' = [ZeroStats EXCEPT !.total = Len(video_files')]
    /\ pc' = IF video_files' = << >> THEN "done" ELSE "found"
    /\ UNCHANGED << loopVars, params, mainVars, miscVars, toolEnv, outFiles, tasks, fut, invoked, report,
                    audio_file >>

\* The job-building loop and the choice between the pool and the loop.
Build ==
    /\ pc = "found"
    /\ audio_file' = [f \in Range(video_files) |-> AudioFile(f, audio_format, keep_structure)]
    /\ tasks' = BuildTasks(video_files, outFiles, audio_format, keep_structure, overwrite)
    /\ stats' = [stats EXCEPT !.skipped =
                    SkippedCount(video_files, outFiles, audio_format, keep_structure, overwrite)]
    /\ report' = [f \in Range(video_files) |->
                    IF f \in SkippedFiles(video_files, outFiles, audio_format, keep_structure, overwrite)
                    THEN [outcome |-> "skipped", msg |-> ""]
                    ELSE [outcome |-> "pending", msg |-> ""]]
    /\ fut' = [i \in 1..Len(tasks') |-> [st |-> "queued", res |-> NoResult]]
    /\ pc' = IF tasks' = << >> THEN "done"
             ELSE IF UsePool(max_workers, tasks') THEN "pool" ELSE "seq"
    /\ UNCHANGED << loopVars, params, mainVars, miscVars, toolEnv, outFiles, video_files, invoked >>

\* a worker that counts its own result as well
WorkerStatsCounts(st, res) == Count(st, res)

\* What a pool thread does to the statistics: convert_video_to_audio returns
\* (success, message) and has no access to the stats dict of batch_convert.
WorkerStats(st, res) == st

\* the output directory after task i's ffmpeg ended
FilesAfterTool(i) ==
    [outFiles EXCEPT ![tasks[i].audio_path] = ToolEffect(toolEnv[tasks[i].video_path], @)]

\* what task i's call returns after its ffmpeg ended
ResultAfterTool(i) ==
    Classify(toolEnv[tasks[i].video_path], FilesAfterTool(i), tasks[i].audio_path)

\* A pool thread takes the next queued task and runs convert_video_to_audio
\* up to subprocess.run: ffmpeg is started when the pre-checks pass.
WorkerStart(i) ==
    /\ pc \in {"pool", "shutdown"}
    /\ PoolCanStart(fut, i, max_workers)
    /\ \E e \in EnvChoices(toolEnv, Faults) :
          /\ toolEnv' = [toolEnv EXCEPT ![tasks[i].video_path] = e]
          /\ IF PreCheck(tasks[i], outFiles, e).kind = "invoke"
             THEN /\ fut' = [fut EXCEPT ![i].st = "running"]
                  /\ invoked' = Append(invoked, tasks[i].video_path)
                  /\ UNCHANGED stats
             ELSE /\ fut' = [fut EXCEPT ![i] = [st |-> "done",
                                               res |-> PreCheck(tasks[i], outFiles, e)]]
                  /\ stats' = WorkerStats(stats, PreCheck(tasks[i], outFiles, e))
                  /\ UNCHANGED invoked
    /\ UNCHANGED << loopVars, params, mainVars, miscVars, outFiles, pc, video_files, tasks,
                    report, audio_file >>

\* ffmpeg ends in a pool thread: the call classifies the outcome and the
\* future completes.
WorkerToolExit(i) ==
    /\ pc \in {"pool", "shutdown"}
    /\ i \in Running(fut)
    /\ outFiles' = FilesAfterTool(i)
    /\ fut' = [fut EXCEPT ![i] = [st |-> "done", res |-> ResultAfterTool(i)]]
    /\ stats' = WorkerStats(stats, ResultAfterTool(i))
    /\ UNCHANGED << loopVars, params, mainVars, miscVars, toolEnv, pc, video_files, tasks,
                    invoked, report, audio_file >>

\* the result the coordinating thread sees for a completed future: an
\* exception raised in the worker is caught by "except Exception"
PoolResult(res) == IF res.kind = "raise" THEN Ret(FALSE, "worker_exception") ELSE res

\* The coordinating thread takes a completed future from as_completed and
\* counts it; after the last one batch_convert returns.
Collect(i) ==
    /\ pc = "pool"
    /\ i \in Finished(fut)
    /\ fut' = [fut EXCEPT ![i].st = "collected"]
    /\ stats' = Count(stats, PoolResult(fut[i].res))
    /\ report' = [report EXCEPT ![tasks[i].video_path] = Report(PoolResult(fut[i].res))]
    /\ pc' = IF Collected(fut') = DOMAIN fut THEN "done" ELSE "pool"
    /\ UNCHANGED << loopVars, params, mainVars, miscVars, toolEnv, outFiles, video_files, tasks, invoked,
                    audio_file >>

\* The sequential loop calls convert_video_to_audio for its next task.  A
\* call that ends before subprocess.run returns at once and is counted; an
\* exception it raises leaves batch_convert.
SeqCall(i) ==
    /\ pc = "seq"
    /\ Running(fut) = {}
    /\ Queued(fut) # {}
    /\ i = SeqPick(fut)
    /\ \E e \in EnvChoices(toolEnv, Faults) :
          /\ toolEnv' = [toolEnv EXCEPT ![tasks[i].video_path] = e]
          /\ LET r == PreCheck(tasks[i], outFiles, e)
             IN  IF r.kind = "invoke"
                 THEN /\ fut' = [fut EXCEPT ![i].st = "running"]
                      /\ invoked' = Append(invoked, tasks[i].video_path)
                      /\ UNCHANGED << pc, stats, report >>
                 ELSE IF r.kind = "raise"
                 THEN /\ fut' = [fut EXCEPT ![i] = [st |-> "done", res |-> r]]
                      /\ pc' = "raised"
                      /\ UNCHANGED << stats, report, invoked >>
                 ELSE /\ fut' = [fut EXCEPT ![i] = [st |-> "collected", res |-> r]]
                      /\ stats' = Count(stats, r)
                      /\ report' = [report EXCEPT ![tasks[i].video_path] = Report(r)]
                      /\ pc' = IF Collected(fut') = DOMAIN fut THEN "done" ELSE "seq"
                      /\ UNCHANGED invoked
    /\ UNCHANGED << loopVars, params, mainVars, miscVars, outFiles, video_files, tasks, audio_file >>

\* ffmpeg ends in the sequential loop: the call returns and is counted.
SeqReturn(i) ==
    /\ pc = "seq"
    /\ i \in Running(fut)
    /\ outFiles' = FilesAfterTool(i)
    /\ fut' = [fut EXCEPT ![i] = [st |-> "collected", res |-> ResultAfterTool(i)]]
    /\ stats' = Count(stats, ResultAfterTool(i))
    /\ report' = [report EXCEPT ![tasks[i].video_path] = Report(ResultAfterTool(i))]
    /\ pc' = IF Collected(fut') = DOMAIN fut THEN "done" ELSE "seq"
    /\ UNCHANGED << loopVars, params, mainVars, miscVars, toolEnv, video_files, tasks, invoked, audio_file >>

\* ------------------------------------------------- interrupt and resume
\* what a call of convert_video_to_audio ends with when KeyboardInterrupt is
\* raised in it: no handler of the function catches a BaseException
Killed == [kind |-> "interrupt", ok |-> FALSE, msg |-> "KeyboardInterrupt"]

\* Where KeyboardInterrupt takes batch_convert.  In the pool branch it
\* leaves the "with ThreadPoolExecutor" block, whose __exit__ calls
\* shutdown(wait=True): queued work items are not cancelled.  In the loop it
\* propagates to main.
AfterInterrupt(p) == IF p = "pool" THEN "shutdown" ELSE "interrupted"

\* The user presses Ctrl-C while batch_convert processes its tasks (in the
\* first run over a tree).  In the loop, subprocess.run kills the ffmpeg it
\* waits for, which may have begun to write the destination.
Interrupt ==
    /\ script = "video2audio"
    /\ pc \in {"pool", "seq"}
    /\ runNo = 1
    /\ intAt' = Len(invoked)
    /\ pc' = AfterInterrupt(pc)
    /\ IF pc = "seq" /\ Running(fut) # {}
       THEN /\ fut' = [i \in DOMAIN fut |->
                         IF i \in Running(fut) THEN [st |-> "done", res |-> Killed]
                         ELSE fut[i]]
            /\ \E c \in {"old", "partial"} :
                  outFiles' = [d \in DOMAIN outFiles |->
                                 IF c = "partial" /\ \E i \in Running(fut) : tasks[i].audio_path = d
                                 THEN "partial" ELSE outFiles[d]]
       ELSE UNCHANGED << fut, outFiles >>
    /\ UNCHANGED << loopVars, params, mainVars, audio_dir, toolEnv, video_files, tasks,
                    stats, invoked, report, audio_file >>

\* The worker threads have run every submitted task: shutdown returns and
\* the KeyboardInterrupt reaches main.
ShutdownDone ==
    /\ pc = "shutdown"
    /\ Queued(fut) = {}
    /\ Running(fut) = {}
    /\ pc' = "interrupted"
    /\ UNCHANGED << batchVars, loopVars, params, mainVars, miscVars, toolEnv, outFiles,
                    invoked, report >>

\* The process has ended after an interrupt or with failed jobs; the user
\* runs video2audio again over the same directories with --no-overwrite, to
\* convert what is still missing.
Resume ==
    /\ script = "video2audio"
    /\ pc = "exit"
    /\ runNo = 1
    /\ intAt >= 0 \/ stats.failed > 0
    /\ input_kind = "dir"
    /\ ffmpeg_ok
    /\ runNo' = 2
    /\ overwrite' = FALSE
    /\ outFiles0' = outFiles
    /\ toolEnv' = Unset(DOMAIN toolEnv)
    /\ pc' = "main"
    /\ video_files' = << >>
    /\ tasks' = << >>
    /\ stats' = ZeroStats
    /\ fut' = << >>
    /\ invoked' = << >>
    /\ report' = << >>
    /\ audio_file' = << >>
    /\ exit_code' = -1
    /\ summary' = << >>
    /\ intAt' = -1
    /\ UNCHANGED << loopVars, script, listing, recursive, keep_structure, max_workers,
                    audio_format, prevDest, input_kind, ffmpeg_ok, keep_audio, provider,
                    audio_dir, outFiles >>

\* --------------------------------------------------- audio_compresser.py
\* compress_with_opus_then_mp3's audio_extensions
audio_extensions == {
    << ".", "m", "p", "3" >>,
    << ".", "w", "a", "v" >>,
    << ".", "f", "l", "a", "c" >>,
    << ".", "m", "4", "a" >>,
    << ".", "a", "a", "c" >>,
    << ".", "o", "g", "g" >>,
    << ".", "o", "p", "u", "s" >>,
    << ".", "w", "m", "a" >>,
    << ".", "a", "m", "r" >>,
    << ".", "a", "i", "f", "f" >>,
    << ".", "a", "u" >> }

f_a_flac == << << "a", ".", "f", "l", "a", "c" >> >>
f_a_wav == << << "a", ".", "w", "a", "v" >> >>
f_b_MP3 == << << "b", ".", "M", "P", "3" >> >>

\* "for filename in sorted(os.listdir(input_folder))", with the filter on
\* the lower-cased extension
FindAudioFiles(list) ==
    LET IsAudio(p) == Lower(SplitExt(Last(p))[2]) \in audio_extensions
    IN  SelectSeq(SortedSeq(Range(list)), IsAudio)

\* output_path: f"{name_without_ext}.mp3" in the output folder
Mp3Path(file) == << SplitExt(Last(file))[1] \o << ".", "m", "p", "3" >> >>

\* a first stage whose result is not looked at
AfterStage1Unchecked(outcome, tmp) == Invoke

\* two_stage_compress after the first ffmpeg run; tmp is the temporary file
\* after the run.  "stage2" stands for going on to the second run.
AfterStage1(outcome, tmp) ==
    CASE outcome = "timeout" -> Ret(FALSE, "timeout")
      [] outcome = "exc" -> Ret(FALSE, "error")
      [] outcome = "err" -> Ret(FALSE, "opus_failed")
      [] OTHER -> IF tmp = "absent" \/ tmp = "empty" THEN Ret(FALSE, "opus_missing")
                  ELSE Invoke

\* two_stage_compress after the second ffmpeg run; fs is the output folder
\* after the run.  The final file is only tested for existence.
AfterStage2(outcome, fs, output_path) ==
    CASE outcome = "timeout" -> Ret(FALSE, "timeout")
      [] outcome = "exc" -> Ret(FALSE, "error")
      [] outcome = "err" -> Ret(FALSE, "mp3_failed")
      [] OTHER -> IF Exists(fs, output_path) THEN Ret(TRUE, "compressed")
                  ELSE Ret(FALSE, "final_missing")

\* a cleanup that is reached only when two_stage_compress succeeds
TempAfterNoFinally(res, tmp) == IF res.ok THEN "absent" ELSE tmp

\* two_stage_compress's finally clause, passed on every way out of the
\* inner try block: "if os.path.exists(temp_opus_path): os.unlink(...)"
TempAfter(res, tmp) == "absent"

\* "if success: processed_count += 1"
Processed(n, res) == IF res.ok THEN n + 1 ELSE n

\* "else: failed_files.append((filename, message))"
Failed(ff, file, res) == IF res.ok THEN ff ELSE Append(ff, << file, res.msg >>)

\* the loop has visited its last file: print_summary, return
AfterFile(rest) == IF rest = << >> THEN "done" ELSE "loop"

\* os.listdir and the filter of the loop.
\* main of audio_compresser.py and the __main__ block of vid_compresser.py:
\* "if not os.path.isdir(folder)": print the error and return
FolderCheck(kind) == IF kind = "dir" THEN "start" ELSE "exit"

\* "print_summary(processed_count, failed_files, ...)" when the loop has
\* ended: every entry of failed_files is printed with its message
PrintSummary(p, ff) == IF p = "done" THEN ff ELSE << >>

\* filename.lower().endswith(suffixes)
EndsWith(name, suffixes) ==
    \E s \in suffixes :
        /\ Len(name) >= Len(s)
        /\ SubSeq(Lower(name), Len(name) - Len(s) + 1, Len(name)) = s

\* os.path.getsize of a source file, in the units of GetSize
SrcSize(file) == 8

\* "total += os.path.getsize(filepath)" over a set of files
RECURSIVE SumSizes(_, _)
SumSizes(size, files) ==
    IF files = {} THEN 0
    ELSE LET f == CHOOSE x \in files : TRUE
         IN  size[f] + SumSizes(size, files \ {f})

\* print_summary's total_original: every file of the input folder whose
\* name ends in one of five extensions
TotalOriginal(list) ==
    SumSizes([f \in Range(list) |-> SrcSize(f)],
             {f \in Range(list) :
                 EndsWith(Last(f), {<< ".", "m", "p", "3" >>, << ".", "w", "a", "v" >>,
                                    << ".", "f", "l", "a", "c" >>, << ".", "m", "4", "a" >>,
                                    << ".", "a", "a", "c" >>})})

\* print_summary's total_final: every .mp3 file of the output folder
TotalFinal(fs) ==
    SumSizes([p \in DOMAIN fs |-> GetSize(fs, p)],
             {p \in DOMAIN fs : Exists(fs, p) /\ EndsWith(Last(p), {<< ".", "m", "p", "3" >>})})

ACMain ==
    /\ script = "audio_compresser"
    /\ pc = "main"
    /\ pc' = FolderCheck(input_kind)
    /\ exit_code' = IF pc' = "exit" THEN 0 ELSE exit_code
    /\ UNCHANGED << batchVars, loopVars, params, miscVars, toolEnv, outFiles, invoked,
                    report, summary >>

ACList ==
    /\ script = "audio_compresser"
    /\ pc = "start"
    /\ pending' = FindAudioFiles(listing)
    /\ pc' = AfterFile(pending')
    /\ UNCHANGED << batchVars, params, miscVars, exit_code, toolEnv, outFiles, invoked, report, stage, temp,
                    processed_count, failed_files >>
    /\ summary' = PrintSummary(pc', failed_files')

\* two_stage_compress is called for the next file: the source check, the
\* temporary file, and the start of the Opus run.
ACBegin ==
    /\ script = "audio_compresser"
    /\ pc = "loop"
    /\ stage = "idle"
    /\ \E e \in EnvChoices(toolEnv, (ToolOutcomes \ {"ok"}) \cup {"gone"}) :
          /\ toolEnv' = [toolEnv EXCEPT ![<< Head(pending), "opus" >>] = e]
          /\ IF e = "gone"
             THEN /\ failed_files' = Failed(failed_files, Head(pending), Ret(FALSE, "no_file"))
                  /\ report' = [report EXCEPT ![Head(pending)] = Report(Ret(FALSE, "no_file"))]
                  /\ pending' = Tail(pending)
                  /\ pc' = AfterFile(pending')
                  /\ UNCHANGED << stage, temp, invoked >>
             ELSE /\ temp' = "empty"
                  /\ stage' = "opus"
                  /\ invoked' = Append(invoked, << Head(pending), "opus" >>)
                  /\ UNCHANGED << pending, pc, failed_files, report >>
    /\ UNCHANGED << batchVars, params, miscVars, exit_code, outFiles, processed_count >>
    /\ summary' = PrintSummary(pc', failed_files')

\* The Opus run ends.  When it fails the finally clause removes the
\* temporary file and two_stage_compress returns; otherwise the MP3 run is
\* started.
ACStage1Exit ==
    /\ script = "audio_compresser"
    /\ stage = "opus"
    /\ LET r == AfterStage1(toolEnv[<< Head(pending), "opus" >>], ToolEffect(toolEnv[<< Head(pending), "opus" >>], temp))
       IN  IF r.kind = "invoke"
           THEN /\ temp' = ToolEffect(toolEnv[<< Head(pending), "opus" >>], temp)
                /\ stage' = "mp3"
                /\ invoked' = Append(invoked, << Head(pending), "mp3" >>)
                /\ \E e \in EnvChoices(toolEnv, ToolOutcomes \ {"ok"}) :
                      toolEnv' = [toolEnv EXCEPT ![<< Head(pending), "mp3" >>] = e]
                /\ UNCHANGED << pending, pc, failed_files, report >>
           ELSE /\ temp' = TempAfter(r, ToolEffect(toolEnv[<< Head(pending), "opus" >>], temp))
                /\ stage' = "idle"
                /\ failed_files' = Failed(failed_files, Head(pending), r)
                /\ report' = [report EXCEPT ![Head(pending)] = Report(r)]
                /\ pending' = Tail(pending)
                /\ pc' = AfterFile(pending')
                /\ UNCHANGED << toolEnv, invoked >>
    /\ UNCHANGED << batchVars, params, miscVars, exit_code, outFiles, processed_count >>
    /\ summary' = PrintSummary(pc', failed_files')

\* the output folder after a file's MP3 run ended
FilesAfterMp3(file) ==
    [outFiles EXCEPT ![Mp3Path(file)] = ToolEffect(toolEnv[<< file, "mp3" >>], @)]

\* The MP3 run ends: two_stage_compress returns, its finally clause removes
\* the temporary file, and the loop counts.
ACStage2Exit ==
    /\ script = "audio_compresser"
    /\ stage = "mp3"
    /\ outFiles' = FilesAfterMp3(Head(pending))
    /\ LET r == AfterStage2(toolEnv[<< Head(pending), "mp3" >>], FilesAfterMp3(Head(pending)),
                            Mp3Path(Head(pending)))
       IN  /\ processed_count' = Processed(processed_count, r)
           /\ failed_files' = Failed(failed_files, Head(pending), r)
           /\ report' = [report EXCEPT ![Head(pending)] = Report(r)]
           /\ temp' = TempAfter(r, temp)
    /\ stage' = "idle"
    /\ pending' = Tail(pending)
    /\ pc' = AfterFile(pending')
    /\ UNCHANGED << batchVars, params, miscVars, exit_code, toolEnv, invoked >>
    /\ summary' = PrintSummary(pc', failed_files')

AudioUniverse == {f_a_flac, f_a_wav, f_b_MP3, f_b_txt}

NoReport(S) == [f \in S |-> [outcome |-> "pending", msg |-> ""]]

\* A run of compress_with_opus_then_mp3 over a folder.
InitAC ==
    /\ script = "audio_compresser"
    /\ input_kind \in InputKinds
    /\ ffmpeg_ok = TRUE
    /\ \E S \in Entries(input_kind, AudioUniverse) :
          /\ listing \in {SortedSeq(S), Reverse(SortedSeq(S))}
          /\ toolEnv = Unset(S \X {"opus", "mp3"})
          /\ outFiles \in [{Mp3Path(f) : f \in S} -> {"absent", "data"}]
          /\ report = NoReport(S)
    /\ outFiles0 = outFiles
    /\ recursive = FALSE
    /\ keep_structure = FALSE
    /\ audio_format = "mp3"
    /\ overwrite = TRUE
    /\ max_workers = 1
    /\ runNo = 1
    /\ prevDest = << >>
    /\ pc = "main"
    /\ exit_code = -1
    /\ summary = << >>
    /\ intAt = -1
    /\ keep_audio = FALSE
    /\ provider = "none"
    /\ audio_dir = << >>
    /\ video_files = << >>
    /\ tasks = << >>
    /\ stats = ZeroStats
    /\ fut = << >>
    /\ invoked = << >>
    /\ audio_file = << >>
    /\ pending = << >>
    /\ stage = "idle"
    /\ temp = "absent"
    /\ processed_count = 0
    /\ failed_files = << >>

\* ----------------------------------------------------- vid_compresser.py
\* compress_mp4_files's video_extensions
video_extensions == { << ".", "m", "p", "4" >>, << ".", "M", "P", "4" >>,
                      << ".", "M", "p", "4" >> }

\* "for file in os.listdir(input_folder)" with the test on the extension as
\* written; the listing is not sorted
FindMp4Files(list) ==
    LET IsMp4(p) == SplitExt(Last(p))[2] \in video_extensions
    IN  SelectSeq(list, IsMp4)

\* What compress_mp4_files prints for a file once ffmpeg ended.  The
\* completion line is printed right after subprocess.run(check=True)
\* returns; os.path.getsize then raises for a missing output.
VCPrints(outcome, fs, output_path) ==
    CASE outcome \in {"ok", "zero", "none"} ->
             IF Exists(fs, output_path) THEN << "completed", "sizes" >>
             ELSE << "completed", "error" >>
      [] outcome = "err" -> << "failed" >>
      [] OTHER -> << "error" >>

VCMain ==
    /\ script = "vid_compresser"
    /\ pc = "main"
    /\ pc' = FolderCheck(input_kind)
    /\ exit_code' = IF pc' = "exit" THEN 0 ELSE exit_code
    /\ UNCHANGED << batchVars, loopVars, params, miscVars, toolEnv, outFiles, invoked,
                    report, summary >>

VCList ==
    /\ script = "vid_compresser"
    /\ pc = "start"
    /\ pending' = FindMp4Files(listing)
    /\ pc' = AfterFile(pending')
    /\ UNCHANGED << batchVars, params, mainVars, miscVars, toolEnv, outFiles, invoked, report, stage, temp,
                    processed_count, failed_files >>

\* Whether a started tool comes to an end.  subprocess.run is called without
\* a timeout in compress_mp4_files, extract_audio and
\* extract_audio_from_mp4, so it returns only when the tool exits by
\* itself: a tool that hangs ("hang", "extract_hang") never does.  (Where
\* a timeout is passed, in convert_video_to_audio and two_stage_compress,
\* a hanging tool is the outcome "timeout".)
ToolExits(e) == e \notin {"hang", "extract_hang"}

\* ffmpeg is started for the next file.
VCBegin ==
    /\ script = "vid_compresser"
    /\ pc = "loop"
    /\ stage = "idle"
    /\ stage' = "ffmpeg"
    /\ invoked' = Append(invoked, Head(pending))
    /\ \E e \in EnvChoices(toolEnv, (ToolOutcomes \ {"ok", "timeout"}) \cup {"hang"}) :
          toolEnv' = [toolEnv EXCEPT ![Head(pending)] = e]
    /\ UNCHANGED << batchVars, params, mainVars, miscVars, outFiles, pc, report, pending, temp,
                    processed_count, failed_files >>

\* the output folder after a file's ffmpeg ended
FilesAfterCompress(file) == [outFiles EXCEPT ![file] = ToolEffect(toolEnv[file], @)]

\* ffmpeg ends: the loop prints what became of the file.
VCExit ==
    /\ script = "vid_compresser"
    /\ stage = "ffmpeg"
    /\ ToolExits(toolEnv[Head(pending)])
    /\ outFiles' = FilesAfterCompress(Head(pending))
    /\ report' = [report EXCEPT ![Head(pending)] =
                     VCPrints(toolEnv[Head(pending)], FilesAfterCompress(Head(pending)),
                              Head(pending))]
    /\ stage' = "idle"
    /\ pending' = Tail(pending)
    /\ pc' = AfterFile(pending')
    /\ UNCHANGED << batchVars, params, mainVars, miscVars, toolEnv, invoked, temp, processed_count,
                    failed_files >>

f_d_mP4 == << << "d", ".", "m", "P", "4" >> >>

Mp4Universe == {f_a_mp4, f_b_MP4, f_c_avi, f_d_mP4}

\* A run of compress_mp4_files over a folder.
InitVC ==
    /\ script = "vid_compresser"
    /\ input_kind \in InputKinds
    /\ ffmpeg_ok = TRUE
    /\ \E S \in Entries(input_kind, Mp4Universe) :
          /\ listing \in {SortedSeq(S), Reverse(SortedSeq(S))}
          /\ toolEnv = Unset(S)
          /\ outFiles \in [S -> {"absent", "data"}]
          /\ report = [f \in S |-> << >>]
    /\ outFiles0 = outFiles
    /\ recursive = FALSE
    /\ keep_structure = FALSE
    /\ audio_format = "mp3"
    /\ overwrite = TRUE
    /\ max_workers = 1
    /\ runNo = 1
    /\ prevDest = << >>
    /\ pc = "main"
    /\ exit_code = -1
    /\ summary = << >>
    /\ intAt = -1
    /\ keep_audio = FALSE
    /\ provider = "none"
    /\ audio_dir = << >>
    /\ video_files = << >>
    /\ tasks = << >>
    /\ stats = ZeroStats
    /\ fut = << >>
    /\ invoked = << >>
    /\ audio_file = << >>
    /\ pending = << >>
    /\ stage = "idle"
    /\ temp = "absent"
    /\ processed_count = 0
    /\ failed_files = << >>

\* ------------------------------------------------------- the three scripts
Init == InitV2A \/ InitAC \/ InitVC

Next ==
    \/ MainStart
    \/ MainExit
    \/ ACMain
    \/ VCMain
    \/ Enumerate
    \/ Build
    \/ \E i \in DOMAIN fut : WorkerStart(i)
    \/ \E i \in DOMAIN fut : WorkerToolExit(i)
    \/ \E i \in DOMAIN fut : Collect(i)
    \/ \E i \in DOMAIN fut : SeqCall(i)
    \/ \E i \in DOMAIN fut : SeqReturn(i)
    \/ Resume
    \/ ACList
    \/ ACBegin
    \/ ACStage1Exit
    \/ ACStage2Exit
    \/ VCList
    \/ VCBegin
    \/ VCExit

Spec == Init /\ [][Next]_vars

\* ------------------------------------------------ video2audio, interrupted
\* Runs of video2audio over an existing directory, with ffmpeg installed,
\* in which the user may press Ctrl-C while the tasks are processed and
\* may run the script again afterwards.
InitInt ==
    /\ InitV2A
    /\ input_kind = "dir"
    /\ ffmpeg_ok

NextInt ==
    \/ MainStart
    \/ MainExit
    \/ Enumerate
    \/ Build
    \/ \E i \in DOMAIN fut : WorkerStart(i)
    \/ \E i \in DOMAIN fut : WorkerToolExit(i)
    \/ \E i \in DOMAIN fut : Collect(i)
    \/ \E i \in DOMAIN fut : SeqCall(i)
    \/ \E i \in DOMAIN fut : SeqReturn(i)
    \/ Interrupt
    \/ ShutdownDone
    \/ Resume

SpecInt == InitInt /\ [][NextInt]_vars

\* ------------------------------------------- enumeration and job building
\* The job construction of batch_convert alone, over trees with a
\* subdirectory and a file that is no video, every listing order and every
\* combination of recursive, keep_structure and format, into an empty output
\* directory; then once more over the same tree after the output directory,
\* the listing order and the worker count have changed.
JobsUniverse == {f_a_avi, f_a_mp4, f_b_MP4, f_sub_a_mp4, f_b_txt}

InitJobs ==
    /\ script = "video2audio"
    /\ recursive \in BOOLEAN
    /\ keep_structure \in BOOLEAN
    /\ audio_format \in Formats
    /\ \E S \in Trees(JobsUniverse) :
          /\ listing \in Perms(S)
          /\ toolEnv = Unset(S)
          /\ outFiles = [d \in Dests(Found(S, recursive), audio_format, keep_structure)
                               |-> "absent"]
    /\ outFiles0 = outFiles
    /\ overwrite \in BOOLEAN
    /\ max_workers = 1
    /\ runNo = 1
    /\ prevDest = << >>
    /\ input_kind = "dir"
    /\ ffmpeg_ok = TRUE
    /\ pc = "start"
    /\ Fresh

\* batch_convert is called again with the same input tree, format and flags.
Rerun ==
    /\ pc \in {"pool", "seq", "done"}
    /\ runNo = 1
    /\ runNo' = 2
    /\ prevDest' = audio_file
    /\ listing' \in Perms(Range(listing))
    /\ outFiles' \in [DOMAIN outFiles -> {"absent", "data"}]
    /\ outFiles0' = outFiles'
    /\ max_workers' \in 1..MaxWorkers
    /\ pc' = "start"
    /\ video_files' = << >>
    /\ tasks' = << >>
    /\ stats' = ZeroStats
    /\ fut' = << >>
    /\ invoked' = << >>
    /\ report' = << >>
    /\ audio_file' = << >>
    /\ UNCHANGED << loopVars, mainVars, miscVars, script, recursive, keep_structure,
                    overwrite, audio_format, toolEnv, input_kind, ffmpeg_ok, keep_audio,
                    provider >>

NextJobs == Enumerate \/ Build \/ Rerun

SpecJobs == InitJobs /\ [][NextJobs]_vars

\* ------------------------------------------- audio2text.py and soundext.py
f_c_mp4 == << << "c", ".", "m", "p", "4" >> >>

\* "mp4_files = list(input_dir.glob("*.mp4"))": the match is on the name as
\* written, in the order the directory is listed
GlobMp4(list) ==
    LET IsMp4(p) == Suffix(Last(p)) = << ".", "m", "p", "4" >>
    IN  SelectSeq(list, IsMp4)

\* md_file = output_dir / f"{base_name}.md"
MdFile(mp4_file) == << Stem(Last(mp4_file)) \o << ".", "m", "d" >> >>

\* audio_file = audio_dir / f"{base_name}.mp3", relative to temp_audio
TempAudio(mp4_file) == << Stem(Last(mp4_file)) \o << ".", "m", "p", "3" >> >>

\* The providers a run can be started with.  audio2text: --model-type
\* whisper with a model that loads or does not, --model-type api with or
\* without OPENAI_API_KEY, --model-type local_gguf.  soundext: Whisper,
\* usable or not (the library is missing and so is the speech_recognition
\* fallback, or the model cannot be loaded).
Providers(scr) ==
    IF scr = "audio2text"
    THEN {"whisper_ok", "whisper_unavailable", "api_ok", "api_no_key", "local_gguf"}
    ELSE {"whisper_ok", "whisper_unavailable"}

Unavailable(prov) == prov \in {"whisper_unavailable", "api_no_key"}

\* --model-type of audio2text
ModelType(prov) ==
    CASE prov \in {"api_ok", "api_no_key"} -> "api"
      [] prov = "local_gguf" -> "local_gguf"
      [] OTHER -> "whisper"

\* AudioTranscriber.__init__: self.transcriber is None for the api type, for
\* local_gguf (_init_local_gguf returns None) and for a Whisper model that
\* could not be loaded
TranscriberNone(prov) == ModelType(prov) \in {"api", "local_gguf"} \/ prov = "whisper_unavailable"

\* a start that goes into the loop with any transcriber
TextStartNoCheck(scr, kind, prov, files) ==
    IF kind # "dir" THEN [pc |-> "exit", code |-> 1]
    ELSE IF files = << >> THEN [pc |-> "exit", code |-> 0]
    ELSE [pc |-> "loop", code |-> -1]

\* The start of a transcription run up to the loop.  Both scripts test the
\* input path and return when no MP4 file is found.  audio2text then
\* creates the transcriber and leaves with sys.exit(1) "if
\* transcriber.transcriber is None and args.model_type != 'api'"; soundext
\* creates no transcriber before the loop.
TextStart(scr, kind, prov, files) ==
    IF kind # "dir" THEN [pc |-> "exit", code |-> 1]
    ELSE IF files = << >> THEN [pc |-> "exit", code |-> 0]
    ELSE IF scr = "audio2text" /\ TranscriberNone(prov) /\ ModelType(prov) # "api"
    THEN [pc |-> "exit", code |-> 1]
    ELSE [pc |-> "loop", code |-> -1]

\* what may happen to one file of a transcription run
TextFaults == {"extract_fail", "extract_junk", "extract_zero", "extract_retry",
               "extract_exc", "extract_exc2", "extract_hang", "text_empty", "text_short", "text_min",
               "save_fail"}

\* How the first extraction command of a file ends: with exit code 0, with
\* another exit code, by an exception of subprocess.run, or never.
FirstRun(e) ==
    CASE e \in {"extract_fail", "extract_junk", "extract_retry", "extract_exc2"} -> "nonzero"
      [] e = "extract_exc" -> "exc"
      [] e = "extract_hang" -> "hang"
      [] OTHER -> "zero"

\* ... and how audio2text's second command (-vn -acodec libmp3lame) ends
\* when it is run
SecondRun(e) ==
    CASE e = "extract_retry" -> "zero"
      [] e = "extract_exc2" -> "exc"
      [] OTHER -> "nonzero"

\* The ffmpeg commands an extraction runs.  audio2text's extract_audio runs
\* its second command in the else branch of "if result.returncode == 0";
\* soundext's extract_audio_from_mp4 makes one attempt.
ExtractRuns(scr, e) ==
    IF scr = "audio2text" /\ FirstRun(e) = "nonzero" THEN << "extract", "fallback" >>
    ELSE << "extract" >>

\* an extraction that reports what its first command did
ExtractOkFirstOnly(scr, e) == FirstRun(e) = "zero"

\* extract_audio / extract_audio_from_mp4: the value returned.  "return
\* True" after a first exit code 0, "return result.returncode == 0" after
\* the second command, "return False" in the exception handler.
ExtractOk(scr, e) ==
    IF FirstRun(e) = "zero" THEN TRUE
    ELSE IF FirstRun(e) \in {"exc", "hang"} THEN FALSE
    ELSE IF scr = "audio2text" THEN SecondRun(e) = "zero"
    ELSE FALSE

\* ... and the temporary audio file the extraction leaves
ExtractEffect(scr, e) ==
    IF ExtractOk(scr, e)
    THEN IF e = "extract_zero" THEN "empty" ELSE "data"
    ELSE IF e \in {"extract_junk", "extract_hang"} THEN "partial" ELSE "absent"

\* The number of characters of the text the transcription returns.  Every
\* transcribe function returns "" when its provider cannot be used or the
\* recognition raises, as it does for an audio file without data.
TextLen(prov, e, audio) ==
    IF Unavailable(prov) \/ prov = "local_gguf" \/ audio # "data" THEN 0
    ELSE CASE e = "text_empty" -> 0
           [] e = "text_short" -> 3
           [] e = "text_min" -> 5
           [] OTHER -> 9

\* audio2text: "if not os.path.exists(audio_file) or
\* os.path.getsize(audio_file) == 0"; soundext has no such test
AudioValid(scr, audio) == scr = "soundext" \/ audio \notin {"absent", "empty"}

\* audio2text: "if not text or len(text.strip()) < 5"; soundext: "if not text"
TextAccepted(scr, n) == IF scr = "audio2text" THEN n >= 5 ELSE n > 0

\* The body of the loop after the extraction, for a file whose extraction
\* left the temporary file audio: what is printed, whether the markdown
\* file is written, and whether the cleanup at the end of the body is
\* reached.  Every "continue" leaves the body before the cleanup.
AfterExtract(scr, prov, e, audio) ==
    IF ~ExtractOk(scr, e)
    THEN [res |-> Ret(FALSE, "extract_failed"), transcribed |-> FALSE, saved |-> FALSE,
          cleanup |-> FALSE]
    ELSE IF ~AudioValid(scr, audio)
    THEN [res |-> Ret(FALSE, "invalid_audio"), transcribed |-> FALSE, saved |-> FALSE,
          cleanup |-> FALSE]
    ELSE IF ~TextAccepted(scr, TextLen(prov, e, audio))
    THEN [res |-> Ret(FALSE, "no_text"), transcribed |-> TRUE, saved |-> FALSE,
          cleanup |-> FALSE]
    ELSE IF e = "save_fail"
    THEN [res |-> Ret(FALSE, "save_failed"), transcribed |-> TRUE, saved |-> FALSE,
          cleanup |-> TRUE]
    ELSE [res |-> Ret(TRUE, "saved"), transcribed |-> TRUE, saved |-> TRUE,
          cleanup |-> TRUE]

\* "if not keep_audio and audio_file.exists(): audio_file.unlink()"
Cleanup(keep, audio) == IF keep THEN audio ELSE "absent"

\* a loop that skips nothing
MdDoneNever(fs, md_file) == FALSE

\* "if md_file.exists(): ... continue"
MdDone(fs, md_file) == Exists(fs, md_file)

\* main of audio2text.py, and main and the head of process_mp4_files of
\* soundext.py
TextMain ==
    /\ script \in {"audio2text", "soundext"}
    /\ pc = "main"
    /\ pending' = GlobMp4(listing)
    /\ pc' = TextStart(script, input_kind, provider, pending').pc
    /\ exit_code' = TextStart(script, input_kind, provider, pending').code
    /\ UNCHANGED << batchVars, params, miscVars, summary, toolEnv, outFiles, invoked, report,
                    stage, temp, processed_count, failed_files >>

\* The loop takes its next file: a file whose markdown file exists is
\* skipped, for any other the audio extraction is run.
TextExtract ==
    /\ script \in {"audio2text", "soundext"}
    /\ pc = "loop"
    /\ stage = "idle"
    /\ IF MdDone(outFiles, MdFile(Head(pending)))
       THEN /\ report' = [report EXCEPT ![Head(pending)] = [outcome |-> "skipped", msg |-> ""]]
            /\ pending' = Tail(pending)
            /\ pc' = AfterFile(pending')
            /\ UNCHANGED << toolEnv, audio_dir, invoked, stage >>
       ELSE /\ \E e \in EnvChoices(toolEnv, TextFaults) :
                  /\ toolEnv' = [toolEnv EXCEPT ![Head(pending)] = e]
                  /\ audio_dir' = [audio_dir EXCEPT ![TempAudio(Head(pending))] =
                                      ExtractEffect(script, e)]
                  /\ invoked' = invoked \o [k \in DOMAIN ExtractRuns(script, e) |->
                                              << Head(pending), ExtractRuns(script, e)[k] >>]
            /\ stage' = "extracted"
            /\ UNCHANGED << report, pending, pc >>
    /\ UNCHANGED << batchVars, params, mainVars, intAt, outFiles, temp, processed_count,
                    failed_files >>

\* The extraction has returned.  The rest of the loop body for the file:
\* the tests, the transcription, the markdown file and the cleanup.
TextFinish ==
    /\ script \in {"audio2text", "soundext"}
    /\ stage = "extracted"
    /\ ToolExits(toolEnv[Head(pending)])
    /\ LET f == Head(pending)
           r == AfterExtract(script, provider, toolEnv[f], audio_dir[TempAudio(f)])
       IN  /\ outFiles' = IF r.saved THEN [outFiles EXCEPT ![MdFile(f)] = "data"]
                          ELSE outFiles
           /\ audio_dir' = IF r.cleanup
                           THEN [audio_dir EXCEPT ![TempAudio(f)] = Cleanup(keep_audio, @)]
                           ELSE audio_dir
           /\ processed_count' = IF script = "audio2text"
                                  THEN Processed(processed_count, r.res)
                                  ELSE processed_count
           /\ invoked' = IF r.transcribed THEN Append(invoked, << f, "transcribe" >>)
                          ELSE invoked
           /\ report' = [report EXCEPT ![f] = Report(r.res)]
    /\ stage' = "idle"
    /\ pending' = Tail(pending)
    /\ pc' = AfterFile(pending')
    /\ UNCHANGED << batchVars, params, mainVars, intAt, toolEnv, temp, failed_files >>

\* The loop has ended: the temp_audio directory is removed when it is
\* empty, the closing lines are printed and the process ends.
TextEnd ==
    /\ script \in {"audio2text", "soundext"}
    /\ pc = "done"
    /\ pc' = "exit"
    /\ exit_code' = 0
    /\ UNCHANGED << batchVars, loopVars, params, miscVars, summary, toolEnv, outFiles,
                    invoked, report >>

TextUniverse == {f_a_mp4, f_c_mp4, f_b_MP4}

\* A run of audio2text.py or soundext.py over a directory, with an empty
\* temp_audio directory.
InitText ==
    /\ script \in {"audio2text", "soundext"}
    /\ input_kind \in {"dir", "missing"}
    /\ ffmpeg_ok = TRUE
    /\ keep_audio \in BOOLEAN
    /\ provider \in Providers(script)
    /\ \E S \in Entries(input_kind, TextUniverse) :
          /\ listing \in {SortedSeq(S), Reverse(SortedSeq(S))}
          /\ toolEnv = Unset(S)
          /\ outFiles \in [{MdFile(f) : f \in S} -> {"absent", "data"}]
          /\ audio_dir = [p \in {TempAudio(f) : f \in S} |-> "absent"]
          /\ report = NoReport(S)
    /\ outFiles0 = outFiles
    /\ recursive = FALSE
    /\ keep_structure = FALSE
    /\ audio_format = "mp3"
    /\ overwrite = FALSE
    /\ max_workers = 1
    /\ runNo = 1
    /\ prevDest = << >>
    /\ pc = "main"
    /\ exit_code = -1
    /\ summary = << >>
    /\ intAt = -1
    /\ video_files = << >>
    /\ tasks = << >>
    /\ stats = ZeroStats
    /\ fut = << >>
    /\ invoked = << >>
    /\ audio_file = << >>
    /\ pending = << >>
    /\ stage = "idle"
    /\ temp = "absent"
    /\ processed_count = 0
    /\ failed_files = << >>

NextText == TextMain \/ TextExtract \/ TextFinish \/ TextEnd

SpecText == InitText /\ [][NextText]_vars

\* ---------------------------------------------------- the scripts, running
\* All five scripts, with a process that keeps running: as long as some
\* step of the script can be taken, one is taken eventually.  A step that
\* waits for the external tool can be taken when the tool has exited or
\* subprocess.run has cut it off.
InitFair == Init \/ InitText

NextFair == Next \/ NextText

SpecFair == InitFair /\ [][NextFair]_vars /\ WF_vars(NextFair)

\* ============================================================== properties
V2A == script = "video2audio"
AC == script = "audio_compresser"
VC == script = "vid_compresser"

\* the job builder has run
Built == pc \notin {"main", "start", "found"}

\* the sources whose destination was in the output directory when the run
\* began
Preexisting == {f \in DOMAIN audio_file : Exists(outFiles0, audio_file[f])}

\* no two sources of the run share a destination
DistinctDests == \A f, g \in DOMAIN audio_file : f # g => audio_file[f] # audio_file[g]

\* the position of a source in the task list
TaskOf(f) == CHOOSE i \in DOMAIN tasks : tasks[i].video_path = f

\* C1: with overwrite disabled a source file is skipped, and ffmpeg is never
\* started for it, exactly when its destination was in the output directory
\* when the jobs were built; when every destination was there, the run makes
\* no invocation and ends with skipped = total; when one of three different
\* destinations was there (and no source vanishes and makedirs works), the
\* run ends with total = 3, skipped = 1 and exactly two invocations.
C1_SkipIffDestinationExists ==
    (V2A /\ ~overwrite /\ Built) =>
        /\ \A f \in DOMAIN audio_file : report[f].outcome = "skipped" <=> f \in Preexisting
        /\ \A f \in Preexisting : f \notin Range(invoked)
        /\ stats.skipped = Cardinality(Preexisting)
        /\ Preexisting = DOMAIN audio_file =>
              pc \in {"done", "exit"} /\ invoked = << >> /\ stats.skipped = stats.total
        /\ ( /\ pc = "done"
             /\ Cardinality(DOMAIN audio_file) = 3
             /\ DistinctDests
             /\ Cardinality(Preexisting) = 1
             /\ \A f \in DOMAIN audio_file : toolEnv[f] \notin {"gone", "mkdir_err"} )
           => stats.total = 3 /\ stats.skipped = 1 /\ Len(invoked) = 2

\* C1's case: three files, one destination already there, two invocations
\* that both succeed.
C1_Witness ==
    /\ V2A /\ ~overwrite /\ pc = "done"
    /\ stats.total = 3 /\ stats.skipped = 1 /\ stats.success = 2
    /\ Len(invoked) = 2

\* The sequential loop of batch_convert (max_workers = 1) as a fold over the
\* task list: the statistics it ends with, or that an exception left it.
RECURSIVE SeqRun(_, _, _, _)
SeqRun(tks, fs, env, st) ==
    IF tks = << >> THEN [raised |-> FALSE, stats |-> st]
    ELSE LET t == Head(tks)
             r == PreCheck(t, fs, env[t.video_path])
             after == [fs EXCEPT ![t.audio_path] = ToolEffect(env[t.video_path], @)]
         IN  IF r.kind = "raise" THEN [raised |-> TRUE, stats |-> st]
             ELSE IF r.kind = "ret" THEN SeqRun(Tail(tks), fs, env, Count(st, r))
             ELSE SeqRun(Tail(tks), after, env,
                         Count(st, Classify(env[t.video_path], after, t.audio_path)))

\* the statistics when the job-building loop has ended
StatsWhenBuilt == [ZeroStats EXCEPT !.total = stats.total, !.skipped = stats.skipped]

\* The stepwise sequential path and the fold agree.
SeqRunAgrees ==
    (V2A /\ pc \in {"done", "raised"} /\ tasks # << >> /\ ~UsePool(max_workers, tasks)) =>
        LET r == SeqRun(tasks, outFiles0, toolEnv, StatsWhenBuilt)
        IN  /\ r.raised <=> pc = "raised"
            /\ r.stats = stats

\* C3: a pooled run ends with the success, failed and skipped counts of the
\* sequential run over the same files, output directory and tool outcomes.
C3_PoolEqualsSequential ==
    (V2A /\ pc = "done" /\ UsePool(max_workers, tasks)) =>
        LET r == SeqRun(tasks, outFiles0, toolEnv, StatsWhenBuilt)
        IN  /\ ~r.raised
            /\ r.stats.success = stats.success
            /\ r.stats.failed = stats.failed
            /\ r.stats.skipped = stats.skipped

\* C4: no two sources of a run have the same destination (video2audio, flat
\* or structure-preserving; the .mp3 outputs of audio_compresser).
C4_UniqueDestinations ==
    /\ V2A => DistinctDests
    /\ AC => \A f, g \in Range(FindAudioFiles(listing)) : f # g => Mp3Path(f) # Mp3Path(g)

\* C5: an exception raised while one job is processed is recorded as that
\* job's failure and never leaves batch_convert, in the pool and in the loop.
C5_FaultStaysWithItsJob ==
    V2A => \A i \in DOMAIN fut :
              fut[i].res.kind = "raise" =>
                  /\ pc # "raised"
                  /\ fut[i].st = "collected" =>
                        report[tasks[i].video_path].outcome = "failed"

\* ffmpeg ended with exit status 0
ExitZero(outcome) == outcome \in {"ok", "zero", "none"}

\* C2: in each of the three scripts, a job whose ffmpeg ends with exit status
\* 0 while its destination is missing or has zero bytes is reported as a
\* failure, never as a success.
C2_EmptyOutputIsFailure ==
    [][ /\ V2A => \A i \in DOMAIN fut :
                     ( /\ fut[i].st = "running" /\ fut'[i].st # "running"
                       /\ ExitZero(toolEnv[tasks[i].video_path])
                       /\ ~OutputOk(outFiles', tasks[i].audio_path) )
                     => ~fut'[i].res.ok
        /\ ( /\ AC
             /\ stage = "mp3" /\ stage' = "idle"
             /\ ExitZero(toolEnv[<< Head(pending), "mp3" >>])
             /\ ~OutputOk(outFiles', Mp3Path(Head(pending))) )
           => report'[Head(pending)].outcome = "failed"
        /\ ( /\ VC
             /\ stage = "ffmpeg" /\ stage' = "idle"
             /\ ExitZero(toolEnv[Head(pending)])
             /\ ~OutputOk(outFiles', Head(pending)) )
           => "completed" \notin Range(report'[Head(pending)])
      ]_vars

\* the jobs of the run whose ffmpeg was started and timed out (and was not
\* killed by an interrupt before that)
TimedOutTasks ==
    {i \in DOMAIN tasks : /\ tasks[i].video_path \in Range(invoked)
                          /\ toolEnv[tasks[i].video_path] = "timeout"
                          /\ fut[i].res # Killed}

\* the audio files of the folder whose Opus or MP3 run timed out
TimedOutAudio ==
    {f \in DOMAIN report : toolEnv[<< f, "opus" >>] = "timeout" \/ toolEnv[<< f, "mp3" >>] = "timeout"}

\* C6: a job whose ffmpeg times out ends as a failure with the timeout
\* message and is counted once; a timeout never ends the run; the other jobs
\* are still started, and those whose ffmpeg works succeed and leave their
\* destination (video2audio and audio_compresser).
C6_TimeoutIsOneFailure ==
    /\ V2A =>
          /\ \A i \in TimedOutTasks :
                fut[i].st \in {"done", "collected"} =>
                    /\ fut[i].res = Ret(FALSE, "timeout")
                    /\ fut[i].st = "collected" =>
                          report[tasks[i].video_path] = Report(Ret(FALSE, "timeout"))
          /\ stats.failed = Cardinality({f \in DOMAIN report : report[f].outcome = "failed"})
          /\ pc = "raised" => \E i \in DOMAIN fut : fut[i].res.kind = "raise"
          /\ ( /\ pc = "done"
               /\ DistinctDests
               /\ \A i \in DOMAIN tasks : toolEnv[tasks[i].video_path] \in {"ok", "timeout"} )
             => /\ stats.failed = Cardinality(TimedOutTasks)
                /\ \A i \in DOMAIN tasks :
                      /\ tasks[i].video_path \in Range(invoked)
                      /\ i \notin TimedOutTasks =>
                            /\ report[tasks[i].video_path].outcome = "success"
                            /\ outFiles[tasks[i].audio_path] = "data"
    /\ AC =>
          /\ \A f \in TimedOutAudio :
                report[f].outcome # "pending" =>
                    /\ report[f] = Report(Ret(FALSE, "timeout"))
                    /\ Cardinality({k \in DOMAIN failed_files : failed_files[k][1] = f}) = 1
          /\ Len(failed_files) =
                Cardinality({f \in DOMAIN report : report[f].outcome = "failed"})
          /\ ( /\ pc = "done"
               /\ \A f, g \in Range(FindAudioFiles(listing)) : f # g => Mp3Path(f) # Mp3Path(g) )
             => \A f \in Range(FindAudioFiles(listing)) :
                   /\ report[f].outcome # "pending"
                   /\ (toolEnv[<< f, "opus" >>] = "ok" /\ toolEnv[<< f, "mp3" >>] = "ok") =>
                         /\ report[f].outcome = "success"
                         /\ outFiles[Mp3Path(f)] = "data"

\* C6's case: three jobs, the last one times out, the other two succeed.
C6_Witness ==
    /\ V2A /\ pc = "done"
    /\ Len(tasks) = 3
    /\ TimedOutTasks = {3}
    /\ stats.failed = 1 /\ stats.success = 2
    /\ report[tasks[3].video_path] = Report(Ret(FALSE, "timeout"))
    /\ outFiles[tasks[1].audio_path] = "data" /\ outFiles[tasks[2].audio_path] = "data"

\* C7: the destination of a source file depends on nothing but its relative
\* path, the format and keep_structure: a second run over the same tree,
\* with another listing order, other contents of the output directory and
\* another number of workers, computes the same destination for every file.
C7_DestinationDeterministic ==
    (runNo = 2 /\ Built) =>
        /\ DOMAIN audio_file = DOMAIN prevDest
        /\ \A f \in DOMAIN audio_file : audio_file[f] = prevDest[f]

\* C7's case: the second run has built its jobs with two workers while one
\* destination is in the output directory, which was empty in the first run.
C7_Witness ==
    /\ runNo = 2 /\ Built
    /\ max_workers = 2
    /\ Len(video_files) >= 2
    /\ \E f \in DOMAIN audio_file : Exists(outFiles, audio_file[f])

\* C8: at no time do more ffmpeg invocations of a run execute than the
\* worker count.
C8_AtMostNInvocations ==
    V2A => Cardinality(Running(fut)) <= max_workers

\* C8's case: both workers of a pool of two are busy and a task waits.
C8_Witness ==
    /\ V2A /\ pc = "pool"
    /\ max_workers = 2
    /\ Cardinality(Running(fut)) = 2
    /\ Queued(fut) # {}

\* C9: with one worker, or at most one task, the pool is not used and the
\* jobs run one after the other in the order of the task list: a job is
\* started only when every job before it has been counted.
C9_SequentialInOrder ==
    (V2A /\ (max_workers <= 1 \/ Len(tasks) <= 1)) =>
        /\ pc # "pool"
        /\ Cardinality(Running(fut)) <= 1
        /\ \A j, k \in DOMAIN fut :
              (j < k /\ fut[k].st # "queued") => fut[j].st = "collected"
        /\ \A a, b \in DOMAIN invoked :
              a < b => TaskOf(invoked[a]) < TaskOf(invoked[b])

\* C9's case: one worker, three tasks, the second running after the first
\* was counted, the third waiting.
C9_Witness ==
    /\ V2A /\ max_workers = 1 /\ pc = "seq"
    /\ Len(tasks) = 3
    /\ fut[1].st = "collected" /\ fut[2].st = "running" /\ fut[3].st = "queued"

\* C10: each script visits its files in lexical order of their paths,
\* whatever the order in which the operating system lists the directory.
C10_EnumerationInLexicalOrder ==
    /\ V2A => IsSorted(video_files)
    /\ (AC \/ VC) => IsSorted(pending)

\* C11: when the input path is missing or no directory, or ffmpeg is not
\* available when video2audio starts, no job is ever invoked and the process
\* ends with a non-zero exit status (video2audio, audio_compresser,
\* vid_compresser).
C11_BadStartExitsNonZero ==
    (input_kind # "dir" \/ (V2A /\ ~ffmpeg_ok)) =>
        /\ invoked = << >>
        /\ pc = "exit" => exit_code # 0

\* C12: a video2audio run over an existing directory with ffmpeg available
\* ends with exit status 0, whatever became of the files: some or all jobs
\* failed, all were skipped, or no video file was found.
C12_NormalCompletionExitsZero ==
    (V2A /\ input_kind = "dir" /\ ffmpeg_ok /\ pc = "exit") => exit_code = 0

\* the lines of the final summary that name a file
Listed(f) == {k \in DOMAIN summary : summary[k][1] = f}

\* C20: the final summary names every failed file exactly once, with the
\* message recorded for it, and names no other file (print_summary of
\* audio_compresser, the summary of video2audio's main).
C20_SummaryListsFailedFiles ==
    ((AC /\ pc = "done") \/ (V2A /\ pc = "exit")) =>
        \A f \in DOMAIN report :
            IF report[f].outcome = "failed"
            THEN /\ Cardinality(Listed(f)) = 1
                 /\ \A k \in Listed(f) : summary[k][2] = report[f].msg
            ELSE Listed(f) = {}

\* the files two_stage_compress has returned for after creating its
\* temporary file
Staged == {f \in DOMAIN report : << f, "opus" >> \in Range(invoked) /\ report[f].outcome # "pending"}

\* C15: whenever two_stage_compress is not running, the temporary .opus
\* file it created is gone, whichever way it returned: success, a failed or
\* empty Opus run, a failed MP3 run, a missing final file, a timeout in
\* either stage or any other exception.
C15_TempFileRemoved ==
    AC => /\ stage = "idle" => temp = "absent"
          /\ temp # "absent" => Head(pending) \notin Staged

\* C15's case: the MP3 run of a file timed out after its Opus run had
\* written the temporary file, and two_stage_compress has returned.
C15_Witness ==
    /\ AC /\ stage = "idle" /\ temp = "absent"
    /\ \E f \in Staged : /\ toolEnv[<< f, "mp3" >>] = "timeout"
                         /\ report[f] = Report(Ret(FALSE, "timeout"))

\* the futures the coordinating thread has counted as success / as failure
CountedOk == {i \in Collected(fut) : PoolResult(fut[i].res).ok}
CountedFailed == {i \in Collected(fut) : ~PoolResult(fut[i].res).ok}

\* C19: in a pooled run the statistics are written by the coordinating
\* thread only: at every moment success and failed are exactly the numbers
\* of futures it has taken from as_completed, whatever the workers are doing,
\* skipped is the number fixed while the jobs were built, and when
\* batch_convert returns the three add up to total.
C19_StatsWrittenByCoordinatorOnly ==
    (V2A /\ Built /\ UsePool(max_workers, tasks)) =>
        /\ stats.success = Cardinality(CountedOk)
        /\ stats.failed = Cardinality(CountedFailed)
        /\ stats.skipped = Cardinality({f \in DOMAIN report : report[f].outcome = "skipped"})
        /\ stats.total = Len(video_files)
        /\ pc = "done" => stats.success + stats.failed + stats.skipped = stats.total

\* C19's case: with two workers, one future has been counted while a
\* second worker has finished and a third job is running.
C19_Witness ==
    /\ V2A /\ pc = "pool" /\ max_workers = 2
    /\ Collected(fut) # {} /\ Finished(fut) # {} /\ Running(fut) # {}
    /\ stats.success + stats.failed = 1

\* C17: once Ctrl-C has reached batch_convert no further ffmpeg run is
\* started: the number of invocations stays what it was when the interrupt
\* arrived, in the pool and in the loop.
C17_NoDispatchAfterInterrupt ==
    (V2A /\ intAt >= 0) => Len(invoked) = intAt

\* C18: in a resumed run with overwrite disabled, a source whose destination
\* is a partially written file left by a timed-out or interrupted job of the
\* first run is not passed over as already converted.
C18_PartialFileNotTakenAsDone ==
    (V2A /\ runNo = 2 /\ ~overwrite /\ Built) =>
        \A f \in DOMAIN audio_file :
            outFiles0[audio_file[f]] = "partial" => report[f].outcome # "skipped"

\* a run of one of the two transcription scripts
Text == script \in {"audio2text", "soundext"}

\* the transcription was run for the file
Transcribed(f) == << f, "transcribe" >> \in Range(invoked)

\* the number of characters the transcription of the file returned
TextLenOf(f) == TextLen(provider, toolEnv[f], ExtractEffect(script, toolEnv[f]))

\* C13: in a transcription run a file whose transcription returns fewer
\* than 5 characters is reported as failed and gets no markdown file; a
\* markdown file is written only for a text of at least 5 characters.
C13_ShortTextIsFailure ==
    Text =>
        \A f \in DOMAIN report :
            Transcribed(f) =>
                /\ TextLenOf(f) < 5 =>
                       /\ report[f].outcome = "failed"
                       /\ outFiles[MdFile(f)] = outFiles0[MdFile(f)]
                /\ outFiles[MdFile(f)] # outFiles0[MdFile(f)] => TextLenOf(f) >= 5

\* C14: when the chosen speech-to-text provider cannot be used, the run
\* ends with an error status before the audio of any file is extracted or
\* transcribed.
C14_UnavailableProviderFailsFast ==
    (Text /\ Unavailable(provider)) =>
        /\ invoked = << >>
        /\ (pc = "exit" /\ GlobMp4(listing) # << >>) => exit_code # 0

\* C16: without --keep-audio, once the loop is through with a source file
\* its temporary audio file is gone, whatever became of the file; so when
\* the run has ended temp_audio holds no file the run created.
C16_TempAudioRemoved ==
    (Text /\ ~keep_audio) =>
        \A f \in DOMAIN report :
            report[f].outcome # "pending" => audio_dir[TempAudio(f)] = "absent"

\* the files batch_convert has counted so far
Counted(st) == st.success + st.failed + st.skipped + st.no_audio

\* the files the run has reported with the given outcome
ReportedAs(o) == {f \in DOMAIN report : report[f].outcome = o}

\* C24: batch_convert counts every enumerated file exactly once.  At every
\* moment each counter is the number of files reported with that outcome,
\* so the counters never add up to more than total, and when batch_convert
\* returns its statistics they add up to total, in the pool and in the loop.
C24_EveryFileCountedOnce ==
    (V2A /\ Built) =>
        /\ stats.success = Cardinality(ReportedAs("success"))
        /\ stats.failed = Cardinality(ReportedAs("failed"))
        /\ stats.skipped = Cardinality(ReportedAs("skipped"))
        /\ Counted(stats) <= stats.total
        /\ pc = "done" => Counted(stats) = stats.total

\* C24's case: the sequential loop has returned with one file converted,
\* one failed and one skipped.
C24_Witness ==
    /\ V2A /\ pc = "done" /\ ~UsePool(max_workers, tasks)
    /\ stats.success = 1 /\ stats.failed = 1 /\ stats.skipped = 1

\* the destinations ffmpeg was started for in this run
InvokedDests == {tasks[i].audio_path : i \in {j \in DOMAIN tasks : tasks[j].video_path \in Range(invoked)}}

\* C25: with overwrite disabled, a destination that exists when the
\* video2audio run starts is never the output of an ffmpeg run and keeps
\* its content throughout the run.
C25_ExistingDestinationUntouched ==
    (V2A /\ ~overwrite) =>
        \A d \in DOMAIN outFiles0 :
            outFiles0[d] # "absent" =>
                /\ outFiles[d] = outFiles0[d]
                /\ d \notin InvokedDests

\* C25's case: a run without overwrite has ended; one destination was there
\* before, and ffmpeg was started for another file.
C25_Witness ==
    /\ V2A /\ ~overwrite /\ pc = "done" /\ runNo = 1
    /\ \E d \in DOMAIN outFiles0 : outFiles0[d] = "data"
    /\ invoked # << >>

\* the audio extraction was run for the file
Extracted(f) == << f, "extract" >> \in Range(invoked)

\* C29: in a transcription run a source whose markdown file exists when the
\* run starts is skipped: no extraction and no transcription is run for it,
\* the markdown file keeps its content and no temporary audio file appears
\* for it; so a run over a fully transcribed directory invokes nothing.
C29_TranscribedFileIsSkipped ==
    Text =>
        /\ \A f \in Range(GlobMp4(listing)) :
               outFiles0[MdFile(f)] # "absent" =>
                   /\ ~Extracted(f) /\ ~Transcribed(f)
                   /\ outFiles[MdFile(f)] = outFiles0[MdFile(f)]
                   /\ audio_dir[TempAudio(f)] = "absent"
                   /\ report[f].outcome \in {"pending", "skipped"}
        /\ (\A f \in Range(GlobMp4(listing)) : outFiles0[MdFile(f)] # "absent")
               => invoked = << >>

\* C29's case: a run has ended in which one file with a markdown file was
\* skipped and another file was extracted.
C29_Witness ==
    /\ Text /\ pc = "exit"
    /\ \E f \in DOMAIN report : report[f].outcome = "skipped" /\ outFiles0[MdFile(f)] = "data"
    /\ invoked # << >>

\* the position of an entry in the list of started ffmpeg runs, 0 if absent
PosIn(s, x) == IF x \in Range(s) THEN CHOOSE i \in DOMAIN s : s[i] = x ELSE 0

OpusStarted(f) == << f, "opus" >> \in Range(invoked)
Mp3Started(f) == << f, "mp3" >> \in Range(invoked)

\* the Opus run of the file exited with code 0 and left a non-empty file
OpusGood(f) == toolEnv[<< f, "opus" >>] = "ok"

\* C27: two_stage_compress runs its stages in order.  The MP3 run of a file
\* is started only after its Opus run, and only when that run exited with
\* code 0 and left a non-empty temporary file; it is not started while the
\* Opus run lasts.  When the Opus run fails, times out or yields an empty
\* file, no MP3 run is started for the file and its destination is as the
\* run found it (unless the MP3 run of another source wrote the same name).
C27_StagesInOrder ==
    AC =>
        /\ \A f \in DOMAIN report :
               Mp3Started(f) =>
                   /\ OpusStarted(f)
                   /\ PosIn(invoked, << f, "opus" >>) < PosIn(invoked, << f, "mp3" >>)
                   /\ OpusGood(f)
        /\ stage = "opus" => ~Mp3Started(Head(pending))
        /\ \A f \in DOMAIN report :
               (OpusStarted(f) /\ ~OpusGood(f) /\ report[f].outcome # "pending") =>
                   /\ ~Mp3Started(f)
                   /\ report[f].outcome = "failed"
                   /\ \/ outFiles[Mp3Path(f)] = outFiles0[Mp3Path(f)]
                      \/ \E g \in DOMAIN report : Mp3Path(g) = Mp3Path(f) /\ Mp3Started(g)

\* C27's case: the run has ended; the Opus run of one file failed and the
\* MP3 run of another file was started.
C27_Witness ==
    /\ AC /\ pc = "done"
    /\ \E f \in DOMAIN report : OpusStarted(f) /\ ~OpusGood(f)
    /\ \E g \in DOMAIN report : Mp3Started(g)

RunsOf(f) == SelectSeq(invoked, LAMBDA x : x[1] = f /\ x[2] \in {"extract", "fallback"})

\* how the last extraction command started for the file ended
LastRun(f) ==
    IF << f, "fallback" >> \in Range(invoked) THEN SecondRun(toolEnv[f])
    ELSE FirstRun(toolEnv[f])

\* C26: audio2text's extract_audio starts ffmpeg at most twice for a file;
\* the second command is started exactly when the first one exited with a
\* non-zero code; and the extraction is taken as successful exactly when
\* the last command started exited with code 0 (an exception of either
\* command is a failure).
C26_FallbackIffFirstFailed ==
    script = "audio2text" =>
        \A f \in DOMAIN report :
            Extracted(f) =>
                /\ Len(RunsOf(f)) <= 2
                /\ RunsOf(f)[1] = << f, "extract" >>
                /\ << f, "fallback" >> \in Range(invoked) <=> FirstRun(toolEnv[f]) = "nonzero"
                /\ report[f].outcome # "pending" =>
                       (report[f].msg # "extract_failed" <=> LastRun(f) = "zero")

\* C26's case: the first command of a file exited non-zero, the second one
\* exited with code 0, and the file went on to be transcribed and saved.
C26_Witness ==
    /\ script = "audio2text"
    /\ \E f \in DOMAIN report :
          /\ toolEnv[f] = "extract_retry"
          /\ << f, "fallback" >> \in Range(invoked)
          /\ report[f].outcome = "success"

\* the batch run has come to its end
RunEnded == pc \in {"done", "exit", "raised", "interrupted"}

\* C21: every batch run comes to an end, also when the external tool hangs
\* on a file, since every run of the tool is cut off after a bounded time.
C21_EveryRunTerminates == <>RunEnded

\* the extensions a script is meant to take, in lower case
AllowList == IF V2A THEN SUPPORTED_VIDEO_FORMATS ELSE {<< ".", "m", "p", "4" >>}

\* The files of the tree whose extension, lower-cased, is in the
\* allow-list: the direct children of the root, or with "recursive" the
\* files of every directory.
Candidates ==
    {f \in Range(listing) :
        /\ Lower(Suffix(Last(f))) \in AllowList
        /\ (V2A /\ recursive) \/ Len(f) = 1}

\* C22: the file enumerator yields exactly the files whose extension,
\* compared without regard to letter case, is in the script's allow-list:
\* the files batch_convert found, the files compress_mp4_files has run
\* ffmpeg for when its loop has ended, and the files a transcription run
\* has dealt with when it ends normally.
C22_EnumeratesByExtension ==
    /\ (V2A /\ pc \in {"found", "pool", "seq", "done"}) => Range(video_files) = Candidates
    /\ (VC /\ pc = "done") => Range(invoked) = Candidates
    /\ (Text /\ input_kind = "dir" /\ pc = "exit" /\ exit_code = 0)
           => {f \in DOMAIN report : report[f].outcome # "pending"} = Candidates

\* the sources the loop of compress_with_opus_then_mp3 has a result for
Processed_Sources == {f \in DOMAIN report : report[f].outcome # "pending"}

\* the destinations this run has produced
Produced_Dests == {Mp3Path(f) : f \in ReportedAs("success")}

\* C23: the totals of audio_compresser's summary are a fold over the
\* results of the run: the original total is the sum of the sizes of the
\* sources the run processed, and the final total is the sum of the sizes
\* of the destinations the run produced, whatever else lies in the output
\* folder.
C23_TotalsFoldOverResults ==
    (AC /\ pc = "done" /\ processed_count > 0) =>
        /\ TotalOriginal(listing) =
               SumSizes([f \in Range(listing) |-> SrcSize(f)], Processed_Sources)
        /\ TotalFinal(outFiles) =
               SumSizes([p \in DOMAIN outFiles |-> GetSize(outFiles, p)], Produced_Dests)

====
